---- MODULE Spec2Model ----
(***************************************************************************)
(* MCP Automation Bridge: the deferred-request queue of                    *)
(* UMcpAutomationBridgeSubsystem (arrival, Tick, drain), the handler       *)
(* registry and the handlers the dispatch reaches.                         *)
(***************************************************************************)
EXTENDS Naturals, Sequences, FiniteSets, TLC

\* Bounds of the model.
MaxReq == 2
MaxTasks == 1
MaxActorReq == 4

GameThread == "game"
IOThreads == {"io1", "io2"}
Threads == {GameThread} \cup IOThreads
NoThread == "none"
NoField == "<none>"
\* An absent transform or location (transforms are small numbers).
NoTransform == 99

VARIABLES
  GIsSavingPackage,               \* engine flag: a package save is in progress
  bGarbageCollecting,             \* engine flag: IsGarbageCollecting()
  bAsyncLoading,                  \* engine flag: IsAsyncLoading()
  PendingAutomationRequests,      \* the shared deferred list (request ids)
  bPendingRequestsScheduled,      \* the drain-scheduled flag
  PendingAutomationRequestsMutex, \* the thread that holds the queue mutex
  TickHandle,                     \* TRUE while the ticker is registered
  ConnectionManager,              \* TRUE while the connection manager is valid
  GameThreadTasks,                \* drains posted to the game thread by AsyncTask
  pc,                             \* where each thread is
  LocalQueue,                     \* the drain's local list, per thread
  cur,                            \* the request a thread is appending
  requests,                       \* the requests that arrived, by request id
  processed,                      \* history: one record per dispatch
  appended,                       \* history: request ids in order of append
  ActiveDriver,                   \* McpUIAutomation::ActiveDriver.IsValid()
  bModuleEnabled,                 \* the Automation Driver module's IsEnabled()
  Actors,                         \* the level actors of the editor world
  CachedActorSnapshots            \* the saved transforms, by snapshot key

vars == <<GIsSavingPackage, bGarbageCollecting, bAsyncLoading,
          PendingAutomationRequests, bPendingRequestsScheduled,
          PendingAutomationRequestsMutex, TickHandle, ConnectionManager,
          GameThreadTasks, pc, LocalQueue, cur, requests, processed, appended,
          ActiveDriver, bModuleEnabled, Actors, CachedActorSnapshots>>

\* The UI automation session state.
uiVars == <<ActiveDriver, bModuleEnabled>>

\* The editor world and the transform snapshots.
editorVars == <<Actors, CachedActorSnapshots>>

-----------------------------------------------------------------------------
\* FString helpers.

LowerChar(c) ==
  CASE c = "A" -> "a" [] c = "B" -> "b" [] c = "C" -> "c" [] c = "D" -> "d"
    [] c = "E" -> "e" [] c = "F" -> "f" [] c = "G" -> "g" [] c = "H" -> "h"
    [] c = "I" -> "i" [] c = "J" -> "j" [] c = "K" -> "k" [] c = "L" -> "l"
    [] c = "M" -> "m" [] c = "N" -> "n" [] c = "O" -> "o" [] c = "P" -> "p"
    [] c = "Q" -> "q" [] c = "R" -> "r" [] c = "S" -> "s" [] c = "T" -> "t"
    [] c = "U" -> "u" [] c = "V" -> "v" [] c = "W" -> "w" [] c = "X" -> "x"
    [] c = "Y" -> "y" [] c = "Z" -> "z" [] OTHER -> c

\* FString::ToLower, character by character: every character lowered, halves
\* joined in order.
RECURSIVE ToLowerChars(_)
ToLowerChars(s) ==
  IF s = "" THEN ""
  ELSE IF Len(s) = 1 THEN LowerChar(s)
  ELSE LET mid == Len(s) \div 2
       IN ToLowerChars(SubSeq(s, 1, mid))
            \o ToLowerChars(SubSeq(s, mid + 1, Len(s)))

\* The strings the studies lower most often, and their lower-case forms,
\* computed once.
StudyStrings ==
  {"system_control", "manage_ui", "console_command", "control_actor",
   "describe_capabilities", "engine_quit", "show_fps", "validate_assets",
   "Save_All", "ui_session_start", "ui_session_end", "ui_session_status",
   "ui_click", "stat fps", "Quit", "EXIT now", "quitter", " quit",
   "debug exec x", "a && b", "a;b", "a|b", "a\nb", "a\rb", "a\fb", "Eval(1)",
   "reformat x", "rm", "delete", "Delete", "remove", "create_snapshot",
   "restore_snapshot", "set_transform", "Cube", "cube", "Lamp", "Ghost", "am",
   "/L.Cube", "/L.Lamp", "/L.Cube::pose", "/L.Cube::Pose", "/L.Lamp::pose"}

LowerForms == [s \in StudyStrings |-> ToLowerChars(s)]

\* FString::ToLower.
ToLower(s) == IF s \in StudyStrings THEN LowerForms[s] ELSE ToLowerChars(s)

StartsWith(s, prefix) ==
  Len(s) >= Len(prefix) /\ SubSeq(s, 1, Len(prefix)) = prefix

-----------------------------------------------------------------------------
\* The handler registry.

\* The RegisterHandler calls of InitializeHandlers, in order: <<key, handler>>.
Registrations == <<
    <<"execute_editor_function", "HandleExecuteEditorFunction">>, <<"set_object_property", "HandleSetObjectProperty">>,
    <<"get_object_property", "HandleGetObjectProperty">>, <<"array_append", "HandleArrayAppend">>,
    <<"array_remove", "HandleArrayRemove">>, <<"array_insert", "HandleArrayInsert">>,
    <<"array_get_element", "HandleArrayGetElement">>, <<"array_set_element", "HandleArraySetElement">>,
    <<"array_clear", "HandleArrayClear">>, <<"map_set_value", "HandleMapSetValue">>,
    <<"map_get_value", "HandleMapGetValue">>, <<"map_remove_key", "HandleMapRemoveKey">>,
    <<"map_has_key", "HandleMapHasKey">>, <<"map_get_keys", "HandleMapGetKeys">>,
    <<"map_clear", "HandleMapClear">>, <<"set_add", "HandleSetAdd">>,
    <<"set_remove", "HandleSetRemove">>, <<"set_contains", "HandleSetContains">>,
    <<"set_clear", "HandleSetClear">>, <<"get_asset_references", "HandleGetAssetReferences">>,
    <<"get_asset_dependencies", "HandleGetAssetDependencies">>, <<"fixup_redirectors", "HandleFixupRedirectors">>,
    <<"source_control_checkout", "HandleSourceControlCheckout">>, <<"source_control_submit", "HandleSourceControlSubmit">>,
    <<"bulk_rename_assets", "HandleBulkRenameAssets">>, <<"bulk_delete_assets", "HandleBulkDeleteAssets">>,
    <<"generate_thumbnail", "HandleGenerateThumbnail">>, <<"create_landscape", "HandleCreateLandscape">>,
    <<"create_procedural_terrain", "HandleCreateProceduralTerrain">>, <<"create_landscape_grass_type", "HandleCreateLandscapeGrassType">>,
    <<"sculpt_landscape", "HandleSculptLandscape">>, <<"set_landscape_material", "HandleSetLandscapeMaterial">>,
    <<"edit_landscape", "HandleEditLandscape">>, <<"add_foliage_type", "HandleAddFoliageType">>,
    <<"create_procedural_foliage", "HandleCreateProceduralFoliage">>, <<"paint_foliage", "HandlePaintFoliage">>,
    <<"add_foliage_instances", "HandleAddFoliageInstances">>, <<"remove_foliage", "HandleRemoveFoliage">>,
    <<"get_foliage_instances", "HandleGetFoliageInstances">>, <<"create_niagara_system", "HandleCreateNiagaraSystem">>,
    <<"create_niagara_ribbon", "HandleCreateNiagaraRibbon">>, <<"create_niagara_emitter", "HandleCreateNiagaraEmitter">>,
    <<"spawn_niagara_actor", "HandleSpawnNiagaraActor">>, <<"modify_niagara_parameter", "HandleModifyNiagaraParameter">>,
    <<"create_anim_blueprint", "HandleCreateAnimBlueprint">>, <<"play_anim_montage", "HandlePlayAnimMontage">>,
    <<"setup_ragdoll", "HandleSetupRagdoll">>, <<"add_material_texture_sample", "HandleAddMaterialTextureSample">>,
    <<"add_material_expression", "HandleAddMaterialExpression">>, <<"create_material_nodes", "HandleCreateMaterialNodes">>,
    <<"add_sequencer_keyframe", "HandleAddSequencerKeyframe">>, <<"manage_sequencer_track", "HandleManageSequencerTrack">>,
    <<"add_camera_track", "HandleAddCameraTrack">>, <<"add_animation_track", "HandleAddAnimationTrack">>,
    <<"add_transform_track", "HandleAddTransformTrack">>, <<"manage_ui", "HandleUiAction">>,
    <<"control_environment", "HandleControlEnvironmentAction">>, <<"build_environment", "HandleBuildEnvironmentAction">>,
    <<"console_command", "HandleConsoleCommandAction">>, <<"inspect", "HandleInspectAction">>,
    <<"system_control", "HandleSystemControlAction">>, <<"describe_capabilities", "HandleDescribeCapabilities">>,
    <<"manage_blueprint_graph", "HandleBlueprintGraphAction">>, <<"list_blueprints", "HandleListBlueprints">>,
    <<"manage_world_partition", "HandleWorldPartitionAction">>, <<"manage_render", "HandleRenderAction">>,
    <<"manage_input", "HandleInputAction">>, <<"control_actor", "HandleControlActorAction">>,
    <<"manage_level", "HandleLevelAction">>, <<"manage_sequence", "HandleSequenceAction">>,
    <<"manage_asset", "HandleAssetAction">>, <<"rebuild_material", "HandleRebuildMaterial">>,
    <<"manage_behavior_tree", "HandleBehaviorTreeAction">>, <<"manage_audio", "HandleAudioAction">>,
    <<"manage_lighting", "HandleLightingAction">>, <<"manage_physics", "HandleAnimationPhysicsAction">>,
    <<"manage_effect", "HandleEffectAction">>, <<"create_effect", "HandleEffectAction">>,
    <<"clear_debug_shapes", "HandleEffectAction">>, <<"manage_performance", "HandlePerformanceAction">>,
    <<"execute_python", "HandleExecutePythonAction">>, <<"manage_game_framework", "HandleManageGameFrameworkAction">>,
    <<"manage_sessions", "HandleManageSessionsAction">>, <<"manage_level_structure", "HandleManageLevelStructureAction">>,
    <<"manage_volumes", "HandleManageVolumesAction">>, <<"manage_navigation", "HandleManageNavigationAction">>,
    <<"quit_editor", "HandleQuitEditor">>
  >>

RegisterHandler_Skip(Table, Action, Handler) == Table

\* AutomationHandlers.Add(Action, Handler): adds the key or replaces its entry.
\* Every handler InitializeHandlers passes is bound, so `if (Handler)` holds.
RegisterHandler(Table, Action, Handler) == (Action :> Handler) @@ Table

\* The table after the first n RegisterHandler calls of InitializeHandlers,
\* made in order on Table: a key holds what the last call that set it put
\* there, and a key no call set holds what Table had.
RegisterAll(Table, n) ==
  LET Call(i) == RegisterHandler(<<>>, Registrations[i][1],
                                 Registrations[i][2])
      Added == UNION {DOMAIN Call(i) : i \in 1..n}
      Last(k) == CHOOSE i \in 1..n :
                   /\ k \in DOMAIN Call(i)
                   /\ \A j \in 1..n : k \in DOMAIN Call(j) => j <= i
  IN [k \in Added \cup DOMAIN Table |->
        IF k \in Added THEN Call(Last(k))[k] ELSE Table[k]]

EmptyTable == <<>>

\* The table after InitializeHandlers.
AutomationHandlers == RegisterAll(EmptyTable, Len(Registrations))

-----------------------------------------------------------------------------
\* Requests, payloads and handler results.

\* A JSON payload, reduced to the fields the modelled handlers read. valid is
\* Payload.IsValid(); an absent string field is NoField; paths is TRUE when the
\* payload holds a non-empty array of strings "paths"; actorNames is the
\* string entries of the array "actorNames", none when there is no such array;
\* an absent location is NoTransform.
Payload(valid, action, subAction, paths) ==
  [valid |-> valid, action |-> action, subAction |-> subAction,
   category |-> NoField, profileType |-> NoField, paths |-> paths,
   command |-> NoField, actorName |-> NoField, actorNames |-> <<>>,
   snapshotName |-> NoField, location |-> NoTransform]

\* What the engine answers while a handler runs: whether GEditor is set and
\* whether the engine call the handler makes succeeds.
HandlerEnvs == [GEditor : BOOLEAN, ok : BOOLEAN]

Response(success, errorCode) == [success |-> success, errorCode |-> errorCode]

\* What one handler call did: its return value, the responses it passed to
\* SendAutomationResponse and the handler functions that ran, in order.
Result(ret, sent, ran) == [ret |-> ret, sent |-> sent, ran |-> ran]

\* SendAutomationError: an empty ErrorCode resolves to AUTOMATION_ERROR.
SendAutomationError(ErrorCode) ==
  Response(FALSE, IF ErrorCode = "" THEN "AUTOMATION_ERROR" ELSE ErrorCode)

\* TryGetStringField: the field's value, or the variable's initial value.
TryGetStringField(field, initial) == IF field = NoField THEN initial ELSE field

\* Stands for the error code of a failed sub-action (each has its own).
SubActionError == "SUB_ACTION_ERROR"

\* The sub-actions HandleUiAction has a branch for, besides the three below.
UiSubActions ==
  {"create_widget", "add_widget_child", "screenshot", "simulate_input",
   "create_hud", "set_widget_text", "set_widget_image",
   "set_widget_visibility", "remove_widget_from_viewport",
   "ui_session_start", "ui_session_end", "ui_session_status", "ui_click",
   "ui_double_click", "ui_hover", "ui_type", "ui_focus", "ui_scroll",
   "ui_wait_for", "ui_element_exists", "ui_get_element_info",
   "ui_get_cursor_position", "ui_wait_time"}

\* What a branch of HandleUiAction leaves behind: ActiveDriver.IsValid(), the
\* module's IsEnabled(), the calls it made on the module and the driver, and
\* the bSuccess and ErrorCode of its response.
UiBranch(driver, enabled, calls, success, errorCode) ==
  [driver |-> driver, enabled |-> enabled, calls |-> calls,
   success |-> success, errorCode |-> errorCode]

\* A session start that does not look at ActiveDriver.
UiSessionStart_NoCheck(Driver, Enabled) ==
  UiBranch(TRUE, TRUE, <<"Enable", "CreateDriver">>, TRUE, "")

\* ui_session_start, under DriverMutex.
UiSessionStart(Driver, Enabled) ==
  IF Driver THEN UiBranch(Driver, Enabled, <<>>, FALSE, "SESSION_ACTIVE")
  ELSE UiBranch(TRUE, TRUE, <<"Enable", "CreateDriver">>, TRUE, "")

\* A session end that does not look at ActiveDriver.
UiSessionEnd_NoCheck(Driver, Enabled) ==
  UiBranch(FALSE, FALSE, <<"Disable">>, TRUE, "")

\* ui_session_end, under DriverMutex.
UiSessionEnd(Driver, Enabled) ==
  IF ~Driver THEN UiBranch(Driver, Enabled, <<>>, FALSE, "NO_SESSION")
  ELSE UiBranch(FALSE, FALSE, <<"Disable">>, TRUE, "")

\* A session status that reports input as blocked whenever the module is
\* loaded.
UiSessionStatus_Loaded(Driver, Enabled) ==
  [sessionActive |-> Driver, moduleEnabled |-> TRUE, inputBlocked |-> TRUE]

\* ui_session_status: the sessionActive and inputBlocked fields it reports.
UiSessionStatus(Driver, Enabled) ==
  [sessionActive |-> Driver, moduleEnabled |-> Enabled,
   inputBlocked |-> Enabled]

\* The sub-actions that operate the active driver.
UiDriverOps ==
  {"ui_click", "ui_double_click", "ui_hover", "ui_type", "ui_focus",
   "ui_scroll", "ui_wait_for", "ui_element_exists", "ui_get_element_info",
   "ui_get_cursor_position", "ui_wait_time"}

\* A driver operation that does not look at ActiveDriver.
UiDriverOp_NoCheck(LowerSub, Driver, Enabled, Env) ==
  UiBranch(Driver, Enabled, <<LowerSub>>, Env.ok,
           IF Env.ok THEN "" ELSE SubActionError)

\* A driver operation, under DriverMutex: refused without a session,
\* otherwise performed on the active driver.
UiDriverOp(LowerSub, Driver, Enabled, Env) ==
  IF ~Driver THEN UiBranch(Driver, Enabled, <<>>, FALSE, "NO_SESSION")
  ELSE UiBranch(Driver, Enabled, <<LowerSub>>, Env.ok,
                IF Env.ok THEN "" ELSE SubActionError)

\* The branches of HandleUiAction, each of which sets bSuccess and ErrorCode
\* for the single response sent at the end of the function.
UiOutcome(LowerSub, Env) ==
  CASE LowerSub = "play_in_editor" ->
         IF Env.ok THEN Response(TRUE, "") ELSE Response(FALSE, "PLAY_FAILED")
    [] LowerSub = "stop_play" ->
         IF Env.ok THEN Response(TRUE, "") ELSE Response(FALSE, "STOP_FAILED")
    [] LowerSub = "save_all" ->
         IF Env.ok THEN Response(TRUE, "") ELSE Response(FALSE, "SAVE_FAILED")
    [] LowerSub = "ui_session_start" ->
         LET b == UiSessionStart(ActiveDriver, bModuleEnabled)
         IN Response(b.success, b.errorCode)
    [] LowerSub = "ui_session_end" ->
         LET b == UiSessionEnd(ActiveDriver, bModuleEnabled)
         IN Response(b.success, b.errorCode)
    [] LowerSub = "ui_session_status" -> Response(TRUE, "")
    [] LowerSub \in UiDriverOps ->
         LET b == UiDriverOp(LowerSub, ActiveDriver, bModuleEnabled, Env)
         IN Response(b.success, b.errorCode)
    [] LowerSub \in UiSubActions ->
         IF Env.ok THEN Response(TRUE, "") ELSE Response(FALSE, SubActionError)
    [] OTHER -> Response(FALSE, "NOT_IMPLEMENTED")

\* The sub-action HandleUiAction reads from the payload.
UiSubAction(P) ==
  ToLower(IF P.subAction # NoField THEN P.subAction
          ELSE TryGetStringField(P.action, ""))

\* What a request's processing did to the UI automation session: the branch
\* HandleUiAction took, if it ran and got as far as its branches.
UiEffect(Action, P, Ran, Env) ==
  LET LowerSub == UiSubAction(P)
      Same == UiBranch(ActiveDriver, bModuleEnabled, <<>>, TRUE, "")
  IN IF /\ \E n \in DOMAIN Ran : Ran[n] = "HandleUiAction"
        /\ ToLower(Action) \in {"system_control", "manage_ui"}
        /\ P.valid
       THEN CASE LowerSub = "ui_session_start" ->
                   UiSessionStart(ActiveDriver, bModuleEnabled)
              [] LowerSub = "ui_session_end" ->
                   UiSessionEnd(ActiveDriver, bModuleEnabled)
              [] LowerSub \in UiDriverOps ->
                   UiDriverOp(LowerSub, ActiveDriver, bModuleEnabled, Env)
              [] OTHER -> Same
     ELSE Same

HandleUiAction(Action, P, Env) ==
  LET LowerAction == ToLower(Action)
      bIsSystemControl == LowerAction = "system_control"
      bIsManageUi == LowerAction = "manage_ui"
      SubAction == IF P.subAction # NoField THEN P.subAction
                   ELSE TryGetStringField(P.action, "")
      LowerSub == ToLower(SubAction)
      Ran == <<"HandleUiAction">>
  IN IF ~bIsSystemControl /\ ~bIsManageUi THEN Result(FALSE, <<>>, Ran)
     ELSE IF ~P.valid
       THEN Result(TRUE, <<SendAutomationError("INVALID_PAYLOAD")>>, Ran)
     ELSE Result(TRUE, <<UiOutcome(LowerSub, Env)>>, Ran)

\* Sub-actions of system_control with a branch of their own, every path of
\* which sends one response and returns true.
SystemControlDirect ==
  {"show_fps", "screenshot", "get_project_settings", "get_engine_version",
   "get_feature_flags", "set_project_setting", "execute_python", "run_python",
   "compile_project", "cook_content", "package_project", "hot_reload",
   "live_coding", "get_log", "read_log", "get_player_state", "get_pie_status",
   "inspect_actor", "get_component_state"}

\* The validate_assets branch of HandleSystemControlAction.
ValidateAssets(P, Env) ==
  IF ~P.paths THEN <<Response(FALSE, "INVALID_ARGUMENT")>>
  ELSE IF Env.GEditor
    THEN IF Env.ok THEN <<Response(TRUE, "")>>
         ELSE <<Response(FALSE, "SUBSYSTEM_MISSING")>>
  ELSE <<>>

HandleSystemControlAction(Action, P, Env) ==
  LET Lower == ToLower(Action)
      LowerSub == ToLower(TryGetStringField(P.action, ""))
      Ran == <<"HandleSystemControlAction">>
      Ui == HandleUiAction(Action, P, Env)
      Fallback == Result(Ui.ret, Ui.sent, Ran \o Ui.ran)
  IN IF Lower # "system_control" /\ ~StartsWith(Lower, "system_control")
       THEN Result(FALSE, <<>>, Ran)
     ELSE IF ~P.valid
       THEN Result(TRUE, <<Response(FALSE, "INVALID_PAYLOAD")>>, Ran)
     ELSE IF P.action = NoField
       THEN Result(TRUE, <<Response(FALSE, "INVALID_ARGUMENT")>>, Ran)
     ELSE IF LowerSub = "profile"
             /\ ToLower(TryGetStringField(P.profileType, ""))
                  \in {"cpu", "gpu", "memory", "fps"}
       THEN Result(TRUE, <<Response(TRUE, "")>>, Ran)
     ELSE IF LowerSub = "set_quality" /\ TryGetStringField(P.category, "") # ""
       THEN Result(TRUE, <<Response(TRUE, "")>>, Ran)
     ELSE IF LowerSub \in SystemControlDirect
       THEN Result(TRUE,
                   <<IF Env.ok THEN Response(TRUE, "")
                     ELSE Response(FALSE, SubActionError)>>, Ran)
     ELSE IF LowerSub = "validate_assets"
       THEN Result(TRUE, ValidateAssets(P, Env), Ran)
     ELSE IF LowerSub = "engine_quit"
       THEN Result(TRUE, <<Response(FALSE, "NOT_ALLOWED")>>, Ran)
     ELSE Fallback

\* The names HandleDescribeCapabilities adds to the supportedActions array,
\* in order.
SupportedActions == <<
    "execute_editor_function", "set_object_property", "get_object_property",
    "array_append", "array_remove", "array_insert", "array_get_element",
    "array_set_element", "array_clear", "map_set_value", "map_get_value",
    "map_remove_key", "map_has_key", "map_get_keys", "map_clear", "set_add",
    "set_remove", "set_contains", "set_clear", "manage_asset",
    "get_asset_references", "get_asset_dependencies", "fixup_redirectors",
    "source_control_checkout", "source_control_submit", "bulk_rename_assets",
    "bulk_delete_assets", "generate_thumbnail", "control_actor",
    "control_editor", "quit_editor", "manage_level", "create_landscape",
    "create_procedural_terrain", "create_landscape_grass_type",
    "sculpt_landscape", "set_landscape_material", "edit_landscape",
    "add_foliage_type", "create_procedural_foliage", "paint_foliage",
    "add_foliage_instances", "remove_foliage", "get_foliage_instances",
    "create_niagara_system", "create_niagara_ribbon",
    "create_niagara_emitter", "spawn_niagara_actor",
    "modify_niagara_parameter", "create_anim_blueprint", "play_anim_montage",
    "setup_ragdoll", "add_material_texture_sample",
    "add_material_expression", "create_material_nodes", "rebuild_material",
    "manage_sequence", "add_sequencer_keyframe", "manage_sequencer_track",
    "add_camera_track", "add_animation_track", "add_transform_track",
    "manage_ui", "control_environment", "build_environment",
    "console_command", "inspect", "system_control", "describe_capabilities",
    "manage_blueprint", "manage_blueprint_graph", "list_blueprints",
    "manage_world_partition", "manage_render", "manage_input",
    "manage_behavior_tree", "manage_audio", "manage_lighting",
    "manage_physics", "manage_effect", "create_effect", "clear_debug_shapes",
    "manage_performance", "execute_python", "manage_skeleton",
    "manage_material_authoring", "manage_texture",
    "manage_animation_authoring", "manage_audio_authoring",
    "manage_niagara_authoring", "manage_gas", "manage_character",
    "manage_combat", "manage_ai", "manage_inventory", "manage_interaction",
    "manage_widget_authoring", "manage_networking", "manage_game_framework",
    "manage_sessions", "manage_level_structure", "manage_volumes",
    "manage_navigation", "manage_splines", "manage_pipeline", "manage_test",
    "manage_log", "manage_debug", "manage_insights", "manage_asset_query"
  >>

\* HandleDescribeCapabilities (editor build): one success response that
\* carries the capabilities object.
HandleDescribeCapabilities(Action, P, Env) ==
  LET Ran == <<"HandleDescribeCapabilities">>
  IN IF ToLower(Action) # "describe_capabilities"
       THEN Result(FALSE, <<>>, Ran)
     ELSE Result(TRUE, <<Response(TRUE, "")>>, Ran)

\* The supportedActions array of the capabilities object a request's
\* processing sent, empty if it sent none.
CapsSent(Action, Ran) ==
  IF /\ \E n \in DOMAIN Ran : Ran[n] = "HandleDescribeCapabilities"
     /\ ToLower(Action) = "describe_capabilities"
    THEN SupportedActions
  ELSE <<>>

\* FString::Contains: sub occurs in s (both already lower-cased where the
\* code calls it, so the search's own case rule makes no difference).
Contains(s, sub) ==
  \E i \in 1..(Len(s) - Len(sub) + 1) : SubSeq(s, i, i + Len(sub) - 1) = sub

\* The backquote character of TEXT("`"). A TLA+ string cannot hold it, so the
\* form feed, which no list and no other command here uses, is written for it.
Backtick == "\f"

\* The lists HandleConsoleCommandAction checks a command against.
ExplicitBlockedCommands ==
  <<"quit", "exit", "crash", "shutdown", "restart", "reboot", "debug exec">>

ForbiddenTokens ==
  <<"rm ", "rm-", "del ", "format ", "rmdir", "mklink", "copy ", "move ",
    "start \"", "system(", "import os", "import subprocess", "subprocess.",
    "os.system", "exec(", "eval(", "__import__", "import sys",
    "import importlib", "with open", "open(">>

\* An explicit-command check that looks for the bare command only.
ExplicitlyBlocked_EqualsOnly(LowerCommand) ==
  \E n \in DOMAIN ExplicitBlockedCommands :
    LowerCommand = ExplicitBlockedCommands[n]

\* 1. Explicit command blocking: the command is a blocked command, or starts
\* with one followed by a space.
ExplicitlyBlocked(LowerCommand) ==
  \E n \in DOMAIN ExplicitBlockedCommands :
    LET Blocked == ExplicitBlockedCommands[n]
    IN LowerCommand = Blocked \/ StartsWith(LowerCommand, Blocked \o " ")

\* 2. Token-based blocking.
HasForbiddenToken(LowerCommand) ==
  \E n \in DOMAIN ForbiddenTokens : Contains(LowerCommand, ForbiddenTokens[n])

\* The checks of HandleConsoleCommandAction on the payload, in order: the
\* error code of the response, "" when the command went to GEngine->Exec, and
\* the commands that went there.
ConsoleCommand(P) ==
  LET LowerCommand == ToLower(P.command)
      Refused(code) == [errorCode |-> code, executed |-> <<>>]
  IN IF ~P.valid THEN Refused("INVALID_PAYLOAD")
     ELSE IF P.command = NoField THEN Refused("INVALID_ARGUMENT")
     ELSE IF ExplicitlyBlocked(LowerCommand) THEN Refused("COMMAND_BLOCKED")
     ELSE IF HasForbiddenToken(LowerCommand) THEN Refused("COMMAND_BLOCKED")
     ELSE IF Contains(LowerCommand, "&&") \/ Contains(LowerCommand, "||")
       THEN Refused("COMMAND_BLOCKED")
     ELSE IF Contains(LowerCommand, "\n") \/ Contains(LowerCommand, "\r")
       THEN Refused("COMMAND_BLOCKED")
     ELSE IF Contains(LowerCommand, ";") \/ Contains(LowerCommand, "|")
       THEN Refused("COMMAND_BLOCKED")
     ELSE IF Contains(LowerCommand, Backtick) THEN Refused("COMMAND_BLOCKED")
     ELSE [errorCode |-> "", executed |-> <<P.command>>]

\* HandleConsoleCommandAction: every path past the Action check sends one
\* response; Env.ok is whether GEngine->Exec returns without throwing.
HandleConsoleCommandAction(Action, P, Env) ==
  LET Ran == <<"HandleConsoleCommandAction">>
      b == ConsoleCommand(P)
  IN IF ToLower(Action) # "console_command" THEN Result(FALSE, <<>>, Ran)
     ELSE IF b.errorCode # ""
       THEN Result(TRUE, <<Response(FALSE, b.errorCode)>>, Ran)
     ELSE IF Env.ok THEN Result(TRUE, <<Response(TRUE, "")>>, Ran)
     ELSE Result(TRUE, <<Response(FALSE, "EXECUTION_FAILED")>>, Ran)

\* The commands a request's processing passed to GEngine->Exec.
ExecCalls(Action, P, Ran) ==
  IF /\ \E n \in DOMAIN Ran : Ran[n] = "HandleConsoleCommandAction"
     /\ ToLower(Action) = "console_command"
    THEN ConsoleCommand(P).executed
  ELSE <<>>

-----------------------------------------------------------------------------
\* control_actor: the actors of the editor world and their saved transforms.

\* The level actors by path name, in the order GetAllLevelActors lists them.
\* No play-in-editor session runs (GEditor->PlayWorld is null), an actor's
\* GetName() is its label, and no asset path loads as an actor.
ActorPaths == <<"/L.Cube", "/L.Lamp">>

NoActor == "<no actor>"

\* An FTransform, reduced to a number.
Transforms == 0..1

Actor(label, exists, transform) ==
  [label |-> label, exists |-> exists, transform |-> transform]

\* The world when the bridge starts.
InitialActors ==
  [p \in {ActorPaths[i] : i \in DOMAIN ActorPaths} |->
     IF p = "/L.Cube" THEN Actor("Cube", TRUE, 0) ELSE Actor("Lamp", TRUE, 1)]

\* FString::Equals(Other, ESearchCase::IgnoreCase), and FString's operator==.
EqualsIgnoreCase(a, b) == ToLower(a) = ToLower(b)

\* FString::TrimStartAndEnd.
IsWhitespace(c) == c \in {" ", "\t", "\n", "\r"}

RECURSIVE TrimStartAndEnd(_)
TrimStartAndEnd(s) ==
  IF s = "" THEN ""
  ELSE IF IsWhitespace(SubSeq(s, 1, 1)) THEN TrimStartAndEnd(SubSeq(s, 2, Len(s)))
  ELSE IF IsWhitespace(SubSeq(s, Len(s), Len(s)))
    THEN TrimStartAndEnd(SubSeq(s, 1, Len(s) - 1))
  ELSE s

\* The actor FindActorByName returns for its exact and fuzzy matches (places
\* in the actor list): the first exact match, else the only fuzzy match.
MatchedActor(Exact, FuzzyMatches) ==
  IF Exact # {} THEN ActorPaths[CHOOSE i \in Exact : \A j \in Exact : i <= j]
  ELSE IF Cardinality(FuzzyMatches) = 1
    THEN ActorPaths[CHOOSE i \in FuzzyMatches : TRUE]
  ELSE NoActor

\* FindActorByName in the editor world: the first actor whose label or path
\* name equals Target ignoring case, else the only actor whose label contains
\* Target ignoring case.
FindActorByName(Target, World) ==
  IF Target = "" THEN NoActor
  ELSE MatchedActor(
         {i \in DOMAIN ActorPaths :
            /\ World[ActorPaths[i]].exists
            /\ \/ EqualsIgnoreCase(World[ActorPaths[i]].label, Target)
               \/ EqualsIgnoreCase(ActorPaths[i], Target)},
         {i \in DOMAIN ActorPaths :
            /\ World[ActorPaths[i]].exists
            /\ Contains(ToLower(World[ActorPaths[i]].label),
                        ToLower(Target))})

\* What the response helpers of McpAutomationBridgeHelpers.h are handed:
\* SendStandardSuccessResponse a message and data but no error code,
\* SendStandardErrorResponse an error code and a message.
SendStandardSuccessResponse == Response(TRUE, "")

SendStandardErrorResponse(ErrorCode) == Response(FALSE, ErrorCode)

\* What one control_actor sub-action did: the world and the snapshots after
\* it, the response and its message, the sub-action handler that ran, the
\* actor it resolved, the snapshot name it read, the transform it saved or
\* left the actor with, and the names it deleted and could not delete.
ActorBranch(world, snaps, resp, msg, op, actor, name, transform, del, miss) ==
  [actors |-> world, snapshots |-> snaps, response |-> resp, message |-> msg,
   op |-> op, actor |-> actor, snapshotName |-> name, transform |-> transform,
   deleted |-> del, missing |-> miss]

\* A branch that answers and touches neither the world nor the snapshots.
ActorAnswer(World, Snaps, response, message, op) ==
  ActorBranch(World, Snaps, response, message, op, NoActor, NoField,
              NoTransform, <<>>, <<>>)

\* Targets.AddUnique(Value) for a trimmed entry of actorNames (AddUnique
\* compares with FString's operator==); an empty Value is skipped.
AddUnique(Targets, Value) ==
  IF /\ Value # ""
     /\ \A k \in DOMAIN Targets : ~EqualsIgnoreCase(Targets[k], Value)
    THEN Append(Targets, Value)
  ELSE Targets

\* The Targets the first n entries of actorNames give.
RECURSIVE AddUniqueTargets(_, _)
AddUniqueTargets(NamesArray, n) ==
  IF n = 0 THEN <<>>
  ELSE AddUnique(AddUniqueTargets(NamesArray, n - 1),
                 TrimStartAndEnd(NamesArray[n]))

\* One round of the delete loop: Name resolved to Found after the rounds that
\* gave prev. An actor that is not found, or that DestroyActor refuses to
\* destroy, is listed as missing.
DeleteOne(prev, Name, Found, Env) ==
  IF Found # NoActor /\ Env.ok
    THEN [actors |-> [prev.actors EXCEPT ![Found].exists = FALSE],
          Deleted |-> Append(prev.Deleted, Name),
          Missing |-> prev.Missing]
  ELSE [prev EXCEPT !.Missing = Append(@, Name)]

DeleteNext(prev, Name, Env) ==
  DeleteOne(prev, Name, FindActorByName(Name, prev.actors), Env)

\* The delete loop over the first n Targets.
RECURSIVE DeleteTargets(_, _, _, _)
DeleteTargets(Targets, n, World, Env) ==
  IF n = 0 THEN [actors |-> World, Deleted |-> <<>>, Missing |-> <<>>]
  ELSE DeleteNext(DeleteTargets(Targets, n - 1, World, Env), Targets[n], Env)

\* The Targets of a delete: those of actorNames, else actorName.
DeleteTargetNames(FromArray, SingleName) ==
  IF FromArray # <<>> THEN FromArray
  ELSE IF SingleName # "" THEN <<SingleName>>
  ELSE <<>>

\* Message and ErrorCode as the delete computes them after its loop.
DeleteMessage(bAllDeleted, bAnyDeleted, NumMissing) ==
  IF ~bAnyDeleted /\ NumMissing > 0 THEN "Actors not found"
  ELSE IF bAllDeleted THEN "Actors deleted"
  ELSE "Some actors could not be deleted"

DeleteErrorCode(bAllDeleted, bAnyDeleted, NumMissing) ==
  IF ~bAnyDeleted /\ NumMissing > 0 THEN "NOT_FOUND"
  ELSE IF bAllDeleted THEN ""
  ELSE "DELETE_PARTIAL"

\* The answer of a delete whose loop ended with loop: the error helper gets
\* ErrorCode and Message, the success helper Message and the lists.
DeleteSend(loop, Snaps, bAllDeleted, bAnyDeleted, Message, ErrorCode) ==
  IF ~bAllDeleted /\ Len(loop.Missing) > 0 /\ ~bAnyDeleted
    THEN ActorBranch(loop.actors, Snaps, SendStandardErrorResponse(ErrorCode),
                     Message, "HandleControlActorDelete", NoActor, NoField,
                     NoTransform, loop.Deleted, loop.Missing)
  ELSE ActorBranch(loop.actors, Snaps, SendStandardSuccessResponse, Message,
                   "HandleControlActorDelete", NoActor, NoField, NoTransform,
                   loop.Deleted, loop.Missing)

DeleteAnswer(loop, Snaps, bAllDeleted, bAnyDeleted) ==
  DeleteSend(loop, Snaps, bAllDeleted, bAnyDeleted,
             DeleteMessage(bAllDeleted, bAnyDeleted, Len(loop.Missing)),
             DeleteErrorCode(bAllDeleted, bAnyDeleted, Len(loop.Missing)))

DeleteReport(loop, Snaps) ==
  DeleteAnswer(loop, Snaps, Len(loop.Missing) = 0, Len(loop.Deleted) > 0)

DeleteNamed(Targets, Env, World, Snaps) ==
  IF Len(Targets) = 0
    THEN ActorAnswer(World, Snaps,
                     SendStandardErrorResponse("INVALID_ARGUMENT"),
                     "actorName or actorNames required",
                     "HandleControlActorDelete")
  ELSE DeleteReport(DeleteTargets(Targets, Len(Targets), World, Env), Snaps)

HandleControlActorDelete(P, Env, World, Snaps) ==
  DeleteNamed(DeleteTargetNames(
                AddUniqueTargets(P.actorNames, Len(P.actorNames)),
                TryGetStringField(P.actorName, "")),
              Env, World, Snaps)

\* CachedActorSnapshots is a TMap<FString, FTransform>: a key is found by
\* FString's operator==, which ignores case.
KeyMatches_Exact(a, b) == a = b

KeyMatches(a, b) == EqualsIgnoreCase(a, b)

MapFind(Map, Key) == {k \in DOMAIN Map : KeyMatches(k, Key)}

\* TMap::Contains.
MapContains(Map, Key) == MapFind(Map, Key) # {}

\* TMap::Add: the pair replaces the pair stored under the key, if any.
MapAdd(Map, Key, Value) ==
  [k \in (DOMAIN Map \ MapFind(Map, Key)) \cup {Key} |->
     IF k = Key THEN Value ELSE Map[k]]

\* TMap::operator[] on a key the map contains.
MapValue(Map, Key) == Map[CHOOSE k \in MapFind(Map, Key) : TRUE]

\* FString::Printf(TEXT("%s::%s"), *Found->GetPathName(), *SnapshotName).
SnapshotKey(PathName, SnapshotName) == PathName \o "::" \o SnapshotName

\* The actor the payload's actorName resolves to.
ActorNamed(P, World) ==
  FindActorByName(TryGetStringField(P.actorName, ""), World)

\* create_snapshot once the names are read and the actor is looked up.
CreateSnapshot(TargetName, SnapshotName, Found, World, Snaps, op) ==
  IF TargetName = ""
    THEN ActorAnswer(World, Snaps, Response(FALSE, "INVALID_ARGUMENT"),
                     "actorName required", op)
  ELSE IF SnapshotName = ""
    THEN ActorAnswer(World, Snaps, Response(FALSE, "INVALID_ARGUMENT"),
                     "snapshotName required", op)
  ELSE IF Found = NoActor
    THEN ActorAnswer(World, Snaps, Response(FALSE, "ACTOR_NOT_FOUND"),
                     "Actor not found", op)
  ELSE ActorBranch(World,
                   MapAdd(Snaps, SnapshotKey(Found, SnapshotName),
                          World[Found].transform),
                   SendStandardSuccessResponse, "Snapshot created", op, Found,
                   SnapshotName, World[Found].transform, <<>>, <<>>)

HandleControlActorCreateSnapshot(P, Env, World, Snaps) ==
  CreateSnapshot(TryGetStringField(P.actorName, ""),
                 TryGetStringField(P.snapshotName, ""), ActorNamed(P, World),
                 World, Snaps, "HandleControlActorCreateSnapshot")

\* The restore of SavedTransform, the transform found under the key.
RestoreSaved(Found, SnapshotName, SavedTransform, World, Snaps, op) ==
  ActorBranch([World EXCEPT ![Found].transform = SavedTransform], Snaps,
              SendStandardSuccessResponse, "Snapshot restored", op, Found,
              SnapshotName, SavedTransform, <<>>, <<>>)

\* The lookup of Key in the snapshots and the restore of what it holds.
RestoreKey(Found, SnapshotName, Key, World, Snaps, op) ==
  IF ~MapContains(Snaps, Key)
    THEN ActorBranch(World, Snaps, Response(FALSE, "SNAPSHOT_NOT_FOUND"),
                     "Snapshot not found", op, Found, SnapshotName,
                     World[Found].transform, <<>>, <<>>)
  ELSE RestoreSaved(Found, SnapshotName, MapValue(Snaps, Key), World, Snaps,
                    op)

\* restore_snapshot once the names are read and the actor is looked up.
RestoreSnapshot(TargetName, SnapshotName, Found, World, Snaps, op) ==
  IF TargetName = ""
    THEN ActorAnswer(World, Snaps, Response(FALSE, "INVALID_ARGUMENT"),
                     "actorName required", op)
  ELSE IF SnapshotName = ""
    THEN ActorAnswer(World, Snaps, Response(FALSE, "INVALID_ARGUMENT"),
                     "snapshotName required", op)
  ELSE IF Found = NoActor
    THEN ActorAnswer(World, Snaps, Response(FALSE, "ACTOR_NOT_FOUND"),
                     "Actor not found", op)
  ELSE RestoreKey(Found, SnapshotName, SnapshotKey(Found, SnapshotName),
                  World, Snaps, op)

HandleControlActorRestoreSnapshot(P, Env, World, Snaps) ==
  RestoreSnapshot(TryGetStringField(P.actorName, ""),
                  TryGetStringField(P.snapshotName, ""), ActorNamed(P, World),
                  World, Snaps, "HandleControlActorRestoreSnapshot")

\* The answer of set_transform: Location was asked for and the actor is at
\* NewLoc afterwards.
TransformSet(Found, Location, NewLoc, World, Snaps, op) ==
  IF NewLoc # Location
    THEN ActorBranch([World EXCEPT ![Found].transform = NewLoc], Snaps,
                     SendStandardErrorResponse("TRANSFORM_MISMATCH"),
                     "Failed to set transform exactly", op, Found, NoField,
                     NewLoc, <<>>, <<>>)
  ELSE ActorBranch([World EXCEPT ![Found].transform = NewLoc], Snaps,
                   SendStandardSuccessResponse, "Actor transform updated", op,
                   Found, NoField, NewLoc, <<>>, <<>>)

\* SetActorLocation moves the actor unless the engine refuses.
SetActorLocation(Found, Location, Env, World, Snaps, op) ==
  TransformSet(Found, Location,
               IF Env.ok THEN Location ELSE World[Found].transform,
               World, Snaps, op)

\* set_transform, with the transform reduced to its location: the location
\* of the payload, or the actor's own, is set and read back.
SetTransform(TargetName, Found, P, Env, World, Snaps, op) ==
  IF TargetName = ""
    THEN ActorAnswer(World, Snaps, Response(FALSE, "INVALID_ARGUMENT"),
                     "actorName required", op)
  ELSE IF Found = NoActor
    THEN ActorAnswer(World, Snaps, Response(FALSE, "ACTOR_NOT_FOUND"),
                     "Actor not found", op)
  ELSE SetActorLocation(Found,
                        IF P.location = NoTransform
                          THEN World[Found].transform
                        ELSE P.location,
                        Env, World, Snaps, op)

HandleControlActorSetTransform(P, Env, World, Snaps) ==
  SetTransform(TryGetStringField(P.actorName, ""), ActorNamed(P, World), P,
               Env, World, Snaps, "HandleControlActorSetTransform")

\* The sub-actions of control_actor whose handlers are not modelled.
OtherActorSubActions ==
  {"spawn", "spawn_blueprint", "apply_force", "apply_force_to_actor",
   "get_transform", "get_actor_transform", "set_visibility", "set_actor_visibility",
   "add_component", "set_component_properties", "get_components",
   "duplicate", "attach", "detach", "find_by_tag", "add_tag", "remove_tag",
   "find_by_name", "delete_by_tag", "set_blueprint_variables", "export",
   "get_bounding_box", "get_metadata", "list", "list_actors", "get",
   "get_actor", "get_actor_by_name"}

\* The sub-action dispatch of HandleControlActorAction.
ControlActorSub(LowerSub, P, Env, World, Snaps) ==
  CASE LowerSub \in {"delete", "remove"} ->
         HandleControlActorDelete(P, Env, World, Snaps)
    [] LowerSub \in {"set_transform", "set_actor_transform"} ->
         HandleControlActorSetTransform(P, Env, World, Snaps)
    [] LowerSub = "create_snapshot" ->
         HandleControlActorCreateSnapshot(P, Env, World, Snaps)
    [] LowerSub = "restore_snapshot" ->
         HandleControlActorRestoreSnapshot(P, Env, World, Snaps)
    [] LowerSub \in OtherActorSubActions ->
         ActorAnswer(World, Snaps, Response(Env.ok, ""), "", LowerSub)
    [] OTHER ->
         ActorAnswer(World, Snaps, Response(FALSE, "UNKNOWN_ACTION"),
                     "Unknown actor control action", "")

\* The branch HandleControlActorAction takes for an Action it accepts; the
\* EditorActorSubsystem is there whenever GEditor is.
ControlActor(P, Env, World, Snaps) ==
  IF ~P.valid
    THEN ActorAnswer(World, Snaps, SendAutomationError("INVALID_PAYLOAD"),
                     "control_actor payload missing.", "")
  ELSE IF ~Env.GEditor
    THEN ActorAnswer(World, Snaps, Response(FALSE, "EDITOR_NOT_AVAILABLE"),
                     "Editor not available", "")
  ELSE ControlActorSub(ToLower(TryGetStringField(P.action, "")), P, Env,
                       World, Snaps)

\* Whether HandleControlActorAction accepts the Action, given in lower case.
AcceptsControlActor(Lower) ==
  Lower = "control_actor" \/ StartsWith(Lower, "control_actor")

IsControlActor(Action) == AcceptsControlActor(ToLower(Action))

\* The handler functions that ran for a branch, and the handler's result.
ActorRan(b) ==
  IF b.op = "" THEN <<"HandleControlActorAction">>
  ELSE <<"HandleControlActorAction", b.op>>

ActorResult(b) == Result(TRUE, <<b.response>>, ActorRan(b))

HandleControlActorAction(Action, P, Env) ==
  IF ~IsControlActor(Action)
    THEN Result(FALSE, <<>>, <<"HandleControlActorAction">>)
  ELSE ActorResult(ControlActor(P, Env, Actors, CachedActorSnapshots))

\* What a request's processing did to the world and the snapshots: the branch
\* HandleControlActorAction took, if it ran and accepted the Action.
ActorEffect(Action, P, Ran, Env) ==
  IF /\ \E n \in DOMAIN Ran : Ran[n] = "HandleControlActorAction"
     /\ IsControlActor(Action)
    THEN ControlActor(P, Env, Actors, CachedActorSnapshots)
  ELSE ActorAnswer(Actors, CachedActorSnapshots, Response(TRUE, ""), "", "")

-----------------------------------------------------------------------------
\* The dispatcher.

\* An answer that reports success.
UnknownAction_Success == Response(TRUE, "")

UnknownAction == Response(FALSE, "UNKNOWN_ACTION")

\* Calls the handler function registered under a key.
InvokeHandler(Handler, Action, P, Env) ==
  CASE Handler = "HandleSystemControlAction" ->
         HandleSystemControlAction(Action, P, Env)
    [] Handler = "HandleUiAction" -> HandleUiAction(Action, P, Env)
    [] Handler = "HandleDescribeCapabilities" ->
         HandleDescribeCapabilities(Action, P, Env)
    [] Handler = "HandleConsoleCommandAction" ->
         HandleConsoleCommandAction(Action, P, Env)
    [] Handler = "HandleControlActorAction" ->
         HandleControlActorAction(Action, P, Env)
    [] OTHER -> Result(TRUE, <<Response(Env.ok, "")>>, <<Handler>>)

\* A lookup that ignores the case of Action.
DispatchRequest_IgnoreCase(Action, P, Env) ==
  IF ToLower(Action) \in DOMAIN AutomationHandlers
    THEN InvokeHandler(AutomationHandlers[ToLower(Action)], Action, P, Env)
  ELSE Result(TRUE, <<UnknownAction>>, <<>>)

\* What the dispatcher makes of a handler's result h: a handler that returns
\* false is answered with a failure response.
HandlerOutcome(h) ==
  IF h.ret THEN h
  ELSE Result(TRUE, Append(h.sent, UnknownAction), h.ran)

\* Exact-match lookup of Action in the handler table; an Action with no entry,
\* and a handler that returns false, is answered with a failure response.
DispatchRequest(Action, P, Env) ==
  IF Action \in DOMAIN AutomationHandlers
    THEN HandlerOutcome(InvokeHandler(AutomationHandlers[Action], Action, P,
                                      Env))
  ELSE Result(TRUE, <<UnknownAction>>, <<>>)

\* The requests a client sends: Action and payload.
RequestInputs ==
  { [Action |-> "system_control",
     Payload |-> Payload(TRUE, "show_fps", NoField, FALSE)],
    [Action |-> "system_control",
     Payload |-> Payload(TRUE, "validate_assets", NoField, TRUE)],
    [Action |-> "system_control",
     Payload |-> Payload(TRUE, "Save_All", NoField, FALSE)],
    [Action |-> "manage_ui",
     Payload |-> Payload(FALSE, NoField, NoField, FALSE)],
    [Action |-> "control_editor",
     Payload |-> Payload(TRUE, "focus_actor", NoField, FALSE)],
    [Action |-> "System_Control",
     Payload |-> Payload(TRUE, "show_fps", NoField, FALSE)],
    [Action |-> "system_control_ui",
     Payload |-> Payload(TRUE, "show_fps", NoField, FALSE)] }

\* The requests of a UI automation client: session start by either route to
\* HandleUiAction, session end, a driver operation and the status query.
UiInputs ==
  { [Action |-> "manage_ui",
     Payload |-> Payload(TRUE, NoField, "ui_session_start", FALSE)],
    [Action |-> "system_control",
     Payload |-> Payload(TRUE, "ui_session_start", NoField, FALSE)],
    [Action |-> "manage_ui",
     Payload |-> Payload(TRUE, "ui_session_end", NoField, FALSE)],
    [Action |-> "manage_ui",
     Payload |-> Payload(TRUE, "ui_click", NoField, FALSE)],
    [Action |-> "manage_ui",
     Payload |-> Payload(TRUE, "ui_session_status", NoField, FALSE)] }

\* The requests of a client that asks for the capabilities, and then sends
\* an action the answer lists.
CapsInputs ==
  { [Action |-> "describe_capabilities",
     Payload |-> Payload(TRUE, NoField, NoField, FALSE)],
    [Action |-> "describe_capabilities",
     Payload |-> Payload(FALSE, NoField, NoField, FALSE)],
    [Action |-> "manage_skeleton",
     Payload |-> Payload(TRUE, "create_bone", NoField, FALSE)] }

\* A console_command request with a command.
ConsoleRequest(Action, Command) ==
  [Action |-> Action,
   Payload |-> [Payload(TRUE, NoField, NoField, FALSE)
                  EXCEPT !.command = Command]]

\* The commands of the console study: harmless ones, each blocked command
\* form, near misses of the blocked forms, forbidden tokens in either case
\* and each chaining character.
ConsoleCommands ==
  {"stat fps", "Quit", "EXIT now", "quitter", " quit", "debug exec x",
   "a && b", "a;b", "a|b", "a\nb", "a\rb", "a" \o Backtick \o "b",
   "Eval(1)", "reformat x", "rm"}

\* The requests of a console client: commands, a request without a command,
\* one without a payload and one whose Action is not the registered key.
ConsoleInputs ==
  {ConsoleRequest("console_command", c) : c \in ConsoleCommands}
    \cup { [Action |-> "console_command",
            Payload |-> Payload(TRUE, NoField, NoField, FALSE)],
           [Action |-> "console_command",
            Payload |-> Payload(FALSE, NoField, NoField, FALSE)],
           ConsoleRequest("Console_Command", "stat fps") }

\* The request the queue is studied with: its one response does not depend on
\* the engine.
QueueInputs ==
  { [Action |-> "system_control",
     Payload |-> Payload(TRUE, "engine_quit", NoField, FALSE)] }

-----------------------------------------------------------------------------
\* The engine's unsafe-state flags.

\* The arrival check without the async-loading flag.
IsUnsafe_NoAsyncLoading == GIsSavingPackage \/ bGarbageCollecting

IsUnsafe == GIsSavingPackage \/ bGarbageCollecting \/ bAsyncLoading

\* Saving and garbage collection are work of the game thread itself.
ToggleSavingPackage ==
  /\ pc[GameThread] = "idle"
  /\ GIsSavingPackage' = ~GIsSavingPackage
  /\ UNCHANGED <<uiVars, editorVars>>
  /\ UNCHANGED <<bGarbageCollecting, bAsyncLoading, PendingAutomationRequests,
                 bPendingRequestsScheduled, PendingAutomationRequestsMutex,
                 TickHandle, ConnectionManager, GameThreadTasks, pc, LocalQueue,
                 cur, requests, processed, appended>>

ToggleGarbageCollecting ==
  /\ pc[GameThread] = "idle"
  /\ bGarbageCollecting' = ~bGarbageCollecting
  /\ UNCHANGED <<uiVars, editorVars>>
  /\ UNCHANGED <<GIsSavingPackage, bAsyncLoading, PendingAutomationRequests,
                 bPendingRequestsScheduled, PendingAutomationRequestsMutex,
                 TickHandle, ConnectionManager, GameThreadTasks, pc, LocalQueue,
                 cur, requests, processed, appended>>

\* Async loading starts and ends on the loader's own schedule.
ToggleAsyncLoading ==
  /\ bAsyncLoading' = ~bAsyncLoading
  /\ UNCHANGED <<uiVars, editorVars>>
  /\ UNCHANGED <<GIsSavingPackage, bGarbageCollecting, PendingAutomationRequests,
                 bPendingRequestsScheduled, PendingAutomationRequestsMutex,
                 TickHandle, ConnectionManager, GameThreadTasks, pc, LocalQueue,
                 cur, requests, processed, appended>>

-----------------------------------------------------------------------------
\* ProcessAutomationRequest: arrival and dispatch.

\* SendAutomationResponse forwards to the connection manager, and is a no-op
\* when the connection manager is gone: the responses that are forwarded.
SendAutomationResponse(sent) == IF ConnectionManager THEN sent ELSE <<>>

\* The handler lookup and the handler run for request r on thread t, with
\* what the handler did to the UI automation session.
RecordDispatch(t, r, in, res, ui, act) ==
  /\ processed' = Append(processed,
       [req |-> r, thread |-> t, handlers |-> res.ran,
        responses |-> res.sent,
        forwarded |-> Len(SendAutomationResponse(res.sent)),
        calls |-> ui.calls,
        supportedActions |-> CapsSent(in.Action, res.ran),
        executed |-> ExecCalls(in.Action, in.Payload, res.ran),
        message |-> act.message, actor |-> act.actor,
        snapshotName |-> act.snapshotName, transform |-> act.transform,
        deleted |-> act.deleted, missing |-> act.missing])
  /\ ActiveDriver' = ui.driver
  /\ bModuleEnabled' = ui.enabled
  /\ Actors' = act.actors
  /\ CachedActorSnapshots' = act.snapshots

DispatchResult(t, r, in, Env, res) ==
  RecordDispatch(t, r, in, res,
                 UiEffect(in.Action, in.Payload, res.ran, Env),
                 ActorEffect(in.Action, in.Payload, res.ran, Env))

Dispatch(t, r, in) ==
  \E Env \in HandlerEnvs :
    DispatchResult(t, r, in, Env,
                   DispatchRequest(in.Action, in.Payload, Env))

\* ProcessAutomationRequest(RequestId, Action, Payload, Socket) on thread t:
\* in an unsafe engine state the request is deferred (the thread goes on to
\* append it under the queue mutex), otherwise it is processed at once.
ProcessAutomationRequest(t, r, in, deferPc, donePc) ==
  IF IsUnsafe
    THEN /\ pc' = [pc EXCEPT ![t] = deferPc]
         /\ cur' = [cur EXCEPT ![t] = r]
         /\ UNCHANGED <<processed, uiVars, editorVars>>
    ELSE /\ Dispatch(t, r, in)
         /\ pc' = [pc EXCEPT ![t] = donePc]
         /\ UNCHANGED cur

\* The message-received callback bound in Initialize: a request arrives on an
\* I/O thread and is handed to ProcessAutomationRequest.
ReceiveUpTo(t, Inputs, Max) ==
  /\ t \in IOThreads
  /\ ConnectionManager
  /\ pc[t] = "idle"
  /\ Len(requests) < Max
  /\ \E in \in Inputs :
       /\ requests' = Append(requests, in)
       /\ ProcessAutomationRequest(t, Len(requests) + 1, in, "enqueue", "idle")
  /\ UNCHANGED <<GIsSavingPackage, bGarbageCollecting, bAsyncLoading,
                 PendingAutomationRequests, bPendingRequestsScheduled,
                 PendingAutomationRequestsMutex, TickHandle, ConnectionManager,
                 GameThreadTasks, LocalQueue, appended>>

Receive(t, Inputs) == ReceiveUpTo(t, Inputs, MaxReq)

\* A request of the queue study arrives.
Arrive(t) == Receive(t, QueueInputs)

\* A request of the dispatch study arrives.
ArriveAny(t) == Receive(t, RequestInputs)

\* A request of the UI automation study arrives.
ArriveUi(t) == Receive(t, UiInputs)

\* A request of the capabilities study arrives.
ArriveCaps(t) == Receive(t, CapsInputs)

\* A request of the console study arrives.
ArriveConsole(t) == Receive(t, ConsoleInputs)

\* An append that refuses a request once the list holds one.
PendingAdd_Capped(Pending, r) ==
  IF Len(Pending) >= 1 THEN Pending ELSE Append(Pending, r)

\* PendingAutomationRequests.Add(request): the list has no capacity check.
PendingAdd(Pending, r) == Append(Pending, r)

\* The deferring thread takes the queue mutex, appends the request and sets
\* the drain-scheduled flag.
EnqueueRequest(t) ==
  /\ pc[t] \in {"enqueue", "requeue"}
  /\ PendingAutomationRequestsMutex = NoThread
  /\ PendingAutomationRequestsMutex' = t
  /\ PendingAutomationRequests' = PendingAdd(PendingAutomationRequests, cur[t])
  /\ bPendingRequestsScheduled' = TRUE
  /\ appended' = IF \E i \in DOMAIN appended : appended[i] = cur[t]
                   THEN appended ELSE Append(appended, cur[t])
  /\ pc' = [pc EXCEPT ![t] = IF pc[t] = "enqueue" THEN "enqueue_unlock"
                                                  ELSE "requeue_unlock"]
  /\ UNCHANGED <<uiVars, editorVars>>
  /\ UNCHANGED <<GIsSavingPackage, bGarbageCollecting, bAsyncLoading,
                 TickHandle, ConnectionManager, GameThreadTasks, LocalQueue,
                 cur, requests, processed>>

\* ... and releases the mutex.
EnqueueUnlock(t) ==
  /\ pc[t] \in {"enqueue_unlock", "requeue_unlock"}
  /\ PendingAutomationRequestsMutex' = NoThread
  /\ pc' = [pc EXCEPT ![t] = IF pc[t] = "enqueue_unlock" THEN "idle"
                                                         ELSE "drain_loop"]
  /\ cur' = [cur EXCEPT ![t] = 0]
  /\ UNCHANGED <<uiVars, editorVars>>
  /\ UNCHANGED <<GIsSavingPackage, bGarbageCollecting, bAsyncLoading,
                 PendingAutomationRequests, bPendingRequestsScheduled,
                 TickHandle, ConnectionManager, GameThreadTasks, LocalQueue,
                 requests, processed, appended>>

-----------------------------------------------------------------------------
\* Tick and ProcessPendingAutomationRequests.

\* The ticker calls Tick on the game thread.
TickCall ==
  /\ TickHandle
  /\ pc[GameThread] = "idle"
  /\ pc' = [pc EXCEPT ![GameThread] = "tick"]
  /\ UNCHANGED <<uiVars, editorVars>>
  /\ UNCHANGED <<GIsSavingPackage, bGarbageCollecting, bAsyncLoading,
                 PendingAutomationRequests, bPendingRequestsScheduled,
                 PendingAutomationRequestsMutex, TickHandle, ConnectionManager,
                 GameThreadTasks, LocalQueue, cur, requests, processed,
                 appended>>

TickCondition_NoAsyncCheck ==
  bPendingRequestsScheduled /\ ~GIsSavingPackage /\ ~bGarbageCollecting

\* The condition of Tick, read without the queue mutex.
TickCondition ==
  bPendingRequestsScheduled /\ ~GIsSavingPackage /\ ~bGarbageCollecting
    /\ ~bAsyncLoading

\* Tick: calls ProcessPendingAutomationRequests ("ppar_tick": entered from
\* Tick) or does nothing; returns true.
Tick ==
  /\ pc[GameThread] = "tick"
  /\ pc' = [pc EXCEPT ![GameThread] =
                         IF TickCondition THEN "ppar_tick" ELSE "idle"]
  /\ UNCHANGED <<uiVars, editorVars>>
  /\ UNCHANGED <<GIsSavingPackage, bGarbageCollecting, bAsyncLoading,
                 PendingAutomationRequests, bPendingRequestsScheduled,
                 PendingAutomationRequestsMutex, TickHandle, ConnectionManager,
                 GameThreadTasks, LocalQueue, cur, requests, processed,
                 appended>>

\* A thread other than the game thread calls ProcessPendingAutomationRequests.
CallProcessPending(t) ==
  /\ t \in IOThreads
  /\ ConnectionManager
  /\ pc[t] = "idle"
  /\ GameThreadTasks < MaxTasks
  /\ pc' = [pc EXCEPT ![t] = "ppar"]
  /\ UNCHANGED <<uiVars, editorVars>>
  /\ UNCHANGED <<GIsSavingPackage, bGarbageCollecting, bAsyncLoading,
                 PendingAutomationRequests, bPendingRequestsScheduled,
                 PendingAutomationRequestsMutex, TickHandle, ConnectionManager,
                 GameThreadTasks, LocalQueue, cur, requests, processed,
                 appended>>

\* The game thread runs a drain that AsyncTask posted to it.
RunGameThreadTask ==
  /\ pc[GameThread] = "idle"
  /\ GameThreadTasks > 0
  /\ GameThreadTasks' = GameThreadTasks - 1
  /\ pc' = [pc EXCEPT ![GameThread] = "ppar"]
  /\ UNCHANGED <<uiVars, editorVars>>
  /\ UNCHANGED <<GIsSavingPackage, bGarbageCollecting, bAsyncLoading,
                 PendingAutomationRequests, bPendingRequestsScheduled,
                 PendingAutomationRequestsMutex, TickHandle, ConnectionManager,
                 LocalQueue, cur, requests, processed, appended>>

IsInGameThread_Always(t) == TRUE

IsInGameThread(t) == t = GameThread

\* ProcessPendingAutomationRequests, entry: off the game thread the drain is
\* posted to the game thread and the call returns.
ProcessPendingEntry(t) ==
  /\ pc[t] \in {"ppar", "ppar_tick"}
  /\ IF ~IsInGameThread(t)
       THEN /\ GameThreadTasks' = GameThreadTasks + 1
            /\ pc' = [pc EXCEPT ![t] = "idle"]
       ELSE /\ pc' = [pc EXCEPT ![t] = "drain_lock"]
            /\ UNCHANGED GameThreadTasks
  /\ UNCHANGED <<uiVars, editorVars>>
  /\ UNCHANGED <<GIsSavingPackage, bGarbageCollecting, bAsyncLoading,
                 PendingAutomationRequests, bPendingRequestsScheduled,
                 PendingAutomationRequestsMutex, TickHandle, ConnectionManager,
                 LocalQueue, cur, requests, processed, appended>>

\* FScopeLock Lock(&PendingAutomationRequestsMutex).
DrainLock(t) ==
  /\ pc[t] = "drain_lock"
  /\ PendingAutomationRequestsMutex = NoThread
  /\ PendingAutomationRequestsMutex' = t
  /\ pc' = [pc EXCEPT ![t] = "drain_cs"]
  /\ UNCHANGED <<uiVars, editorVars>>
  /\ UNCHANGED <<GIsSavingPackage, bGarbageCollecting, bAsyncLoading,
                 PendingAutomationRequests, bPendingRequestsScheduled,
                 TickHandle, ConnectionManager, GameThreadTasks, LocalQueue,
                 cur, requests, processed, appended>>

MoveTemp_DropsAll(Pending) == <<>>

\* LocalQueue = MoveTemp(PendingAutomationRequests): what LocalQueue receives.
MoveTemp(Pending) == Pending

Emptied_Copy(Pending) == Pending

\* PendingAutomationRequests.Empty(): what the shared list holds afterwards.
Emptied(Pending) == <<>>

\* The critical section: an empty list clears the flag and returns (the lock
\* ends with the return); otherwise the list is moved out and the flag cleared.
DrainSwap(t) ==
  /\ pc[t] = "drain_cs"
  /\ IF PendingAutomationRequests = <<>>
       THEN /\ bPendingRequestsScheduled' = FALSE
            /\ PendingAutomationRequestsMutex' = NoThread
            /\ pc' = [pc EXCEPT ![t] = "idle"]
            /\ UNCHANGED <<PendingAutomationRequests, LocalQueue>>
       ELSE /\ LocalQueue' = [LocalQueue EXCEPT
                                ![t] = MoveTemp(PendingAutomationRequests)]
            /\ PendingAutomationRequests' = Emptied(PendingAutomationRequests)
            /\ bPendingRequestsScheduled' = FALSE
            /\ pc' = [pc EXCEPT ![t] = "drain_unlock"]
            /\ UNCHANGED PendingAutomationRequestsMutex
  /\ UNCHANGED <<uiVars, editorVars>>
  /\ UNCHANGED <<GIsSavingPackage, bGarbageCollecting, bAsyncLoading,
                 TickHandle, ConnectionManager, GameThreadTasks, cur, requests,
                 processed, appended>>

ScopeLockEnd_StillHeld(t) == t

\* The holder of the mutex once the FScopeLock block has ended.
ScopeLockEnd(t) == NoThread

\* The end of the locked block, before the loop.
DrainUnlock(t) ==
  /\ pc[t] = "drain_unlock"
  /\ PendingAutomationRequestsMutex' = ScopeLockEnd(t)
  /\ pc' = [pc EXCEPT ![t] = "drain_loop"]
  /\ UNCHANGED <<uiVars, editorVars>>
  /\ UNCHANGED <<GIsSavingPackage, bGarbageCollecting, bAsyncLoading,
                 PendingAutomationRequests, bPendingRequestsScheduled,
                 TickHandle, ConnectionManager, GameThreadTasks, LocalQueue,
                 cur, requests, processed, appended>>

\* The loop over LocalQueue: each request goes to ProcessAutomationRequest.
DrainLoop(t) ==
  /\ pc[t] = "drain_loop"
  /\ IF LocalQueue[t] = <<>>
       THEN /\ pc' = [pc EXCEPT ![t] = "idle"]
            /\ UNCHANGED <<LocalQueue, cur, processed, uiVars,
                          editorVars>>
       ELSE /\ LocalQueue' = [LocalQueue EXCEPT ![t] = Tail(LocalQueue[t])]
            /\ ProcessAutomationRequest(t, Head(LocalQueue[t]),
                                        requests[Head(LocalQueue[t])],
                                        "requeue", "drain_loop")
  /\ UNCHANGED <<GIsSavingPackage, bGarbageCollecting, bAsyncLoading,
                 PendingAutomationRequests, bPendingRequestsScheduled,
                 PendingAutomationRequestsMutex, TickHandle, ConnectionManager,
                 GameThreadTasks, requests, appended>>

\* Deinitialize: removes the ticker, stops and resets the connection manager.
Deinitialize ==
  /\ pc[GameThread] = "idle"
  /\ TickHandle \/ ConnectionManager
  /\ TickHandle' = FALSE
  /\ ConnectionManager' = FALSE
  /\ UNCHANGED <<uiVars, editorVars>>
  /\ UNCHANGED <<GIsSavingPackage, bGarbageCollecting, bAsyncLoading,
                 PendingAutomationRequests, bPendingRequestsScheduled,
                 PendingAutomationRequestsMutex, GameThreadTasks, pc,
                 LocalQueue, cur, requests, processed, appended>>

-----------------------------------------------------------------------------
\* The state after Initialize: empty queue, ticker registered, connection
\* manager started; the engine flags are whatever the engine is doing.
Init ==
  /\ GIsSavingPackage \in BOOLEAN
  /\ bGarbageCollecting \in BOOLEAN
  /\ bAsyncLoading \in BOOLEAN
  /\ PendingAutomationRequests = <<>>
  /\ bPendingRequestsScheduled = FALSE
  /\ PendingAutomationRequestsMutex = NoThread
  /\ TickHandle = TRUE
  /\ ConnectionManager = TRUE
  /\ GameThreadTasks = 0
  /\ pc = [t \in Threads |-> "idle"]
  /\ LocalQueue = [t \in Threads |-> <<>>]
  /\ cur = [t \in Threads |-> 0]
  /\ requests = <<>>
  /\ processed = <<>>
  /\ appended = <<>>
  /\ ActiveDriver = FALSE
  /\ bModuleEnabled = FALSE
  /\ Actors = InitialActors
  /\ CachedActorSnapshots = <<>>

Next ==
  \/ ToggleSavingPackage
  \/ ToggleGarbageCollecting
  \/ ToggleAsyncLoading
  \/ TickCall
  \/ Tick
  \/ RunGameThreadTask
  \/ Deinitialize
  \/ \E t \in Threads :
       \/ Arrive(t)
       \/ EnqueueRequest(t)
       \/ EnqueueUnlock(t)
       \/ CallProcessPending(t)
       \/ ProcessPendingEntry(t)
       \/ DrainLock(t)
       \/ DrainSwap(t)
       \/ DrainUnlock(t)
       \/ DrainLoop(t)

Spec == Init /\ [][Next]_vars

\* The dispatch study: every kind of request, arriving on one connection's
\* I/O thread, deferred while assets load asynchronously and drained by the
\* ticker.
DispatchThreads == {GameThread, "io1"}

InitDispatch ==
  Init /\ ~GIsSavingPackage /\ ~bGarbageCollecting /\ ~bAsyncLoading

NextDispatch ==
  \/ ToggleAsyncLoading
  \/ TickCall
  \/ Tick
  \/ \E t \in DispatchThreads :
       \/ ArriveAny(t)
       \/ EnqueueRequest(t)
       \/ EnqueueUnlock(t)
       \/ ProcessPendingEntry(t)
       \/ DrainLock(t)
       \/ DrainSwap(t)
       \/ DrainUnlock(t)
       \/ DrainLoop(t)

SpecDispatch == InitDispatch /\ [][NextDispatch]_vars

\* The UI automation study: a client's session requests, processed at once or
\* deferred and drained, and the subsystem's shutdown.
NextUi ==
  \/ ToggleAsyncLoading
  \/ TickCall
  \/ Tick
  \/ Deinitialize
  \/ \E t \in DispatchThreads :
       \/ ArriveUi(t)
       \/ EnqueueRequest(t)
       \/ EnqueueUnlock(t)
       \/ ProcessPendingEntry(t)
       \/ DrainLock(t)
       \/ DrainSwap(t)
       \/ DrainUnlock(t)
       \/ DrainLoop(t)

SpecUi == InitDispatch /\ [][NextUi]_vars

\* The capabilities study: describe_capabilities requests, with the engine
\* flags clear at the start.
NextCaps ==
  \/ ToggleAsyncLoading
  \/ TickCall
  \/ Tick
  \/ \E t \in DispatchThreads :
       \/ ArriveCaps(t)
       \/ EnqueueRequest(t)
       \/ EnqueueUnlock(t)
       \/ ProcessPendingEntry(t)
       \/ DrainLock(t)
       \/ DrainSwap(t)
       \/ DrainUnlock(t)
       \/ DrainLoop(t)

SpecCaps == InitDispatch /\ [][NextCaps]_vars

\* The console study: console_command requests that arrive while no engine
\* flag is set, each processed at once by its handler.
NextConsole == \E t \in DispatchThreads : ArriveConsole(t)

SpecConsole == InitDispatch /\ [][NextConsole]_vars

-----------------------------------------------------------------------------
\* Vocabulary of the properties.

Range(s) == {s[i] : i \in DOMAIN s}

Arrived == 1 .. Len(requests)

\* The number of times request r was dispatched.
ProcessedCount(r) == Cardinality({i \in DOMAIN processed : processed[i].req = r})

\* The position of request r's (first) dispatch in the processing order.
ProcessedAt(r) == CHOOSE i \in DOMAIN processed :
                    /\ processed[i].req = r
                    /\ \A j \in DOMAIN processed : processed[j].req = r => i <= j

InShared(r) == r \in Range(PendingAutomationRequests)

InLocal(r) == \E t \in Threads : r \in Range(LocalQueue[t])

\* A thread holds r and waits for the queue mutex to append it.
BeingAppended(r) ==
  \E t \in Threads : pc[t] \in {"enqueue", "requeue"} /\ cur[t] = r

AllFlagsClear == ~GIsSavingPackage /\ ~bGarbageCollecting /\ ~bAsyncLoading

\* This step dispatched a request.
DispatchStep == Len(processed') > Len(processed)

-----------------------------------------------------------------------------
\* C1: no arrived request is dropped. At every moment each arrived request
\* has been processed, is in the shared list, is in a drain's local batch,
\* or is held by a thread that is about to append it; and a request leaves
\* the shared list only by a drain moving it into that drain's local batch.
C1_Accounted ==
  \A r \in Arrived :
    ProcessedCount(r) >= 1 \/ InShared(r) \/ InLocal(r) \/ BeingAppended(r)

C1_LeavesOnlyByDrain ==
  \A r \in Arrived :
    (InShared(r) /\ ~InShared(r)') =>
      \E t \in Threads : /\ pc[t] = "drain_cs"
                         /\ PendingAutomationRequestsMutex = t
                         /\ r \in Range(LocalQueue'[t])

C1_NoRequestDropped == [](C1_Accounted) /\ [][C1_LeavesOnlyByDrain]_vars

\* A request that was deferred has been processed, and another is queued.
C1_Witness ==
  /\ \E i \in DOMAIN processed : processed[i].req \in Range(appended)
  /\ PendingAutomationRequests # <<>>

\* C2: every arrived request is dispatched at most once, whatever the
\* interleaving of arrivals, drains and hand-backs.
C2_AtMostOnce == \A r \in Arrived : ProcessedCount(r) <= 1

\* A deferred request was processed by a drain that is still looping while
\* an I/O thread has just appended another request.
C2_Witness ==
  /\ pc[GameThread] = "drain_loop"
  /\ \E i \in DOMAIN processed : processed[i].req \in Range(appended)
  /\ \E t \in IOThreads : pc[t] = "enqueue_unlock"

\* C3: processing one request sends exactly one response, on every handler
\* path: each dispatch record carries exactly one response.
C3_ExactlyOneResponse ==
  \A i \in DOMAIN processed : Len(processed[i].responses) = 1

C5_FifoByAppendOrder ==
  \A i, j \in DOMAIN appended :
    (i < j /\ ProcessedCount(appended[j]) >= 1) =>
      /\ ProcessedCount(appended[i]) >= 1
      /\ ProcessedAt(appended[i]) < ProcessedAt(appended[j])

\* C6: a request that arrives while an unsafe-state flag is set is not
\* processed by the arrival; its thread goes on to append it to the shared
\* list under the queue mutex, setting the drain-scheduled flag.
C6_ArrivalDefers ==
  /\ (Len(requests') > Len(requests)
      /\ (GIsSavingPackage \/ bGarbageCollecting \/ bAsyncLoading))
       => /\ processed' = processed
          /\ \E t \in Threads : /\ pc[t] = "idle"
                                /\ pc'[t] = "enqueue"
                                /\ cur'[t] = Len(requests')
  /\ \A t \in Threads :
       (pc[t] = "enqueue" /\ pc'[t] # "enqueue")
         => /\ PendingAutomationRequestsMutex' = t
            /\ PendingAutomationRequests' =
                 Append(PendingAutomationRequests, cur[t])
            /\ bPendingRequestsScheduled'
            /\ processed' = processed

C6_UnsafeArrivalIsQueued == [][C6_ArrivalDefers]_vars

\* A request that arrived during async loading sits at the tail of the shared
\* list, unprocessed, with the drain-scheduled flag set.
C6_Witness ==
  /\ bAsyncLoading
  /\ \E t \in IOThreads :
       /\ pc[t] = "enqueue_unlock"
       /\ PendingAutomationRequests # <<>>
       /\ PendingAutomationRequests[Len(PendingAutomationRequests)] = cur[t]
       /\ ProcessedCount(cur[t]) = 0
  /\ bPendingRequestsScheduled

\* C7: the ticker starts a drain only when the three unsafe-state flags are
\* clear and the drain-scheduled flag is set; otherwise the tick returns and
\* leaves the shared list and the drain-scheduled flag as they were.
C7_TickStep ==
  (pc[GameThread] = "tick" /\ pc'[GameThread] # "tick") =>
    IF AllFlagsClear /\ bPendingRequestsScheduled
      THEN pc'[GameThread] = "ppar_tick"
      ELSE /\ pc'[GameThread] = "idle"
           /\ PendingAutomationRequests' = PendingAutomationRequests
           /\ bPendingRequestsScheduled' = bPendingRequestsScheduled

C7_TickDrainsOnlyWhenSafe == [][C7_TickStep]_vars

\* The ticker has started a drain of a non-empty list.
C7_Witness ==
  /\ pc[GameThread] = "ppar_tick"
  /\ PendingAutomationRequests # <<>>

\* C8: a drain moves the whole shared list into its local list and clears
\* the drain-scheduled flag in one critical section of the queue mutex,
\* leaving the shared list empty; while a moved request is processed, or
\* waits in the local list to be processed, the drain does not hold the mutex.
C8_DrainStep ==
  \A t \in Threads :
    /\ (pc[t] = "drain_cs" /\ pc'[t] # "drain_cs"
        /\ PendingAutomationRequests # <<>>)
         => /\ PendingAutomationRequestsMutex = t
            /\ PendingAutomationRequestsMutex' = t
            /\ LocalQueue'[t] = PendingAutomationRequests
            /\ PendingAutomationRequests' = <<>>
            /\ ~bPendingRequestsScheduled'
    /\ pc[t] = "drain_loop" => PendingAutomationRequestsMutex # t
    /\ pc'[t] = "drain_loop" => PendingAutomationRequestsMutex' # t
    /\ (DispatchStep /\ processed'[Len(processed')].thread = t)
         => PendingAutomationRequestsMutex # t
    /\ LocalQueue'[t] # LocalQueue[t]
         => \/ pc[t] = "drain_cs" /\ LocalQueue[t] = <<>>
            \/ pc[t] = "drain_loop" /\ LocalQueue'[t] = Tail(LocalQueue[t])

C8_MoveUnderLockProcessUnlocked == [][C8_DrainStep]_vars

\* A drain has moved two requests out of the shared list and released the
\* mutex; neither has been processed yet.
C8_Witness ==
  /\ pc[GameThread] = "drain_loop"
  /\ Len(LocalQueue[GameThread]) = 2
  /\ PendingAutomationRequests = <<>>
  /\ ~bPendingRequestsScheduled
  /\ PendingAutomationRequestsMutex = NoThread

\* C9: a call of ProcessPendingAutomationRequests on a thread other than the
\* game thread posts the drain to the game thread and returns, leaving the
\* shared list and the drain-scheduled flag as they were; no such thread ever
\* drains, and every request that was queued is processed on the game thread.
C9_OffThreadCall ==
  \A t \in IOThreads :
    /\ (pc[t] = "ppar" /\ pc'[t] # "ppar")
         => /\ pc'[t] = "idle"
            /\ PendingAutomationRequests' = PendingAutomationRequests
            /\ bPendingRequestsScheduled' = bPendingRequestsScheduled
            /\ PendingAutomationRequestsMutex' = PendingAutomationRequestsMutex
            /\ GameThreadTasks' = GameThreadTasks + 1
    /\ pc'[t] \notin {"drain_lock", "drain_cs", "drain_unlock", "drain_loop",
                      "requeue", "requeue_unlock"}
    /\ LocalQueue'[t] = <<>>

C9_QueuedOnGameThread ==
  \A i \in DOMAIN processed :
    processed[i].req \in Range(appended) => processed[i].thread = GameThread

C9_DrainOnlyOnGameThread ==
  [](C9_QueuedOnGameThread) /\ [][C9_OffThreadCall]_vars

\* An I/O thread called the drain while requests were queued: the drain is
\* posted to the game thread and the list is as it was.
C9_Witness ==
  /\ GameThreadTasks > 0
  /\ PendingAutomationRequests # <<>>
  /\ bPendingRequestsScheduled
  /\ \A t \in IOThreads : pc[t] = "idle"

\* The handler function registered under an Action by InitializeHandlers.
C10_Registered(Action) ==
  {Registrations[n][2] : n \in {m \in DOMAIN Registrations :
                                  Registrations[m][1] = Action}}

C11_UnknownActionFails ==
  \A i \in DOMAIN processed :
    (\A n \in DOMAIN Registrations :
       Registrations[n][1] # requests[processed[i].req].Action)
      => /\ processed[i].handlers = <<>>
         /\ Len(processed[i].responses) = 1
         /\ ~processed[i].responses[1].success

\* A control_editor request, which InitializeHandlers registers no handler
\* for, has been processed.
C11_Witness ==
  \E i \in DOMAIN processed :
    /\ requests[processed[i].req].Action = "control_editor"
    /\ processed[i].responses = <<[success |-> FALSE,
                                   errorCode |-> "UNKNOWN_ACTION"]>>

C13_AppendStep ==
  /\ \A t \in Threads :
       (pc[t] \in {"enqueue", "requeue"} /\ pc'[t] # pc[t])
         => Len(PendingAutomationRequests') =
              Len(PendingAutomationRequests) + 1
  /\ (pc[GameThread] = "tick" /\ pc'[GameThread] # "tick" /\ ~AllFlagsClear)
       => Len(PendingAutomationRequests') = Len(PendingAutomationRequests)

C13_QueueHasNoCapacityBound == [][C13_AppendStep]_vars

\* Every request that could arrive did so while a flag was set, and all of
\* them are in the shared list.
C13_Witness ==
  /\ ~AllFlagsClear
  /\ Len(PendingAutomationRequests) = MaxReq
  /\ processed = <<>>

\* C14: whenever no thread is inside a critical section of the queue mutex,
\* a non-empty shared list implies that the drain-scheduled flag is set.
C14_NonEmptyImpliesScheduled ==
  (PendingAutomationRequestsMutex = NoThread
   /\ PendingAutomationRequests # <<>>) => bPendingRequestsScheduled

\* An I/O thread appended a request and left its critical section after a
\* drain's swap, while that drain is still looping.
C14_Witness ==
  /\ PendingAutomationRequestsMutex = NoThread
  /\ PendingAutomationRequests # <<>>
  /\ bPendingRequestsScheduled
  /\ pc[GameThread] = "drain_loop"
  /\ LocalQueue[GameThread] # <<>>

-----------------------------------------------------------------------------
\* The liveness study: one connection's I/O thread, the ticker registered for
\* good, and async loading that comes and goes. Every thread that can take a
\* step eventually takes it and the ticker keeps firing; nothing is assumed
\* of the loader.
NextLive ==
  \/ ToggleAsyncLoading
  \/ TickCall
  \/ Tick
  \/ \E t \in DispatchThreads :
       \/ Arrive(t)
       \/ EnqueueRequest(t)
       \/ EnqueueUnlock(t)
       \/ ProcessPendingEntry(t)
       \/ DrainLock(t)
       \/ DrainSwap(t)
       \/ DrainUnlock(t)
       \/ DrainLoop(t)

Fairness ==
  /\ WF_vars(TickCall)
  /\ WF_vars(Tick)
  /\ \A t \in DispatchThreads :
       /\ WF_vars(EnqueueRequest(t))
       /\ WF_vars(EnqueueUnlock(t))
       /\ WF_vars(ProcessPendingEntry(t))
       /\ WF_vars(DrainLock(t))
       /\ WF_vars(DrainSwap(t))
       /\ WF_vars(DrainUnlock(t))
       /\ WF_vars(DrainLoop(t))

SpecLive == InitDispatch /\ [][NextLive]_vars /\ Fairness

-----------------------------------------------------------------------------
\* Vocabulary of the UI automation properties.

\* The Enable and Disable calls made on the Automation Driver module by the
\* first n dispatches, in order.
RECURSIVE ModuleCalls(_)
ModuleCalls(n) ==
  IF n = 0 THEN <<>>
  ELSE ModuleCalls(n - 1) \o
         SelectSeq(processed[n].calls, LAMBDA c : c \in {"Enable", "Disable"})

\* The request dispatched by this step, and its sub-action.
Dispatched == processed'[Len(processed')]

DispatchedSub == UiSubAction(requests'[Dispatched.req].Payload)

\* C16: the module's Enable and Disable calls strictly alternate, starting
\* with Enable; a session is active exactly after an unmatched Enable, so at
\* most one is active and no Disable comes without one.
C16_EnableDisableAlternate ==
  LET log == ModuleCalls(Len(processed))
  IN /\ \A k \in DOMAIN log :
          log[k] = IF k % 2 = 1 THEN "Enable" ELSE "Disable"
     /\ ActiveDriver <=> (Len(log) % 2 = 1)

\* A session was started and ended.
C16_Witness == ModuleCalls(Len(processed)) = <<"Enable", "Disable">>

\* C17: ui_session_start processed while a session is active fails with
\* SESSION_ACTIVE, calls neither Enable nor CreateDriver and leaves the
\* active driver as it is.
C17_Step ==
  (DispatchStep /\ ActiveDriver /\ DispatchedSub = "ui_session_start")
    => /\ Dispatched.responses = <<[success |-> FALSE,
                                    errorCode |-> "SESSION_ACTIVE"]>>
       /\ Dispatched.calls = <<>>
       /\ ActiveDriver'
       /\ bModuleEnabled' = bModuleEnabled

C17_SecondStartRefused == [][C17_Step]_vars

\* Two session starts were processed: the first made the calls, the second
\* was refused.
C17_Witness ==
  /\ Len(processed) = 2
  /\ processed[1].calls = <<"Enable", "CreateDriver">>
  /\ processed[2].responses[1].errorCode = "SESSION_ACTIVE"
  /\ ActiveDriver

\* C18: each of the eleven driver operations, processed while no session is
\* active, fails with NO_SESSION and performs no operation on a driver.
C18_Step ==
  (DispatchStep /\ ~ActiveDriver
   /\ DispatchedSub \in {"ui_click", "ui_double_click", "ui_hover", "ui_type",
                         "ui_focus", "ui_scroll", "ui_wait_for",
                         "ui_element_exists", "ui_get_element_info",
                         "ui_get_cursor_position", "ui_wait_time"})
    => /\ Dispatched.responses = <<[success |-> FALSE,
                                    errorCode |-> "NO_SESSION"]>>
       /\ Dispatched.calls = <<>>
       /\ UNCHANGED uiVars

C18_AllOps ==
  ~ActiveDriver =>
    \A op \in {"ui_click", "ui_double_click", "ui_hover", "ui_type",
               "ui_focus", "ui_scroll", "ui_wait_for", "ui_element_exists",
               "ui_get_element_info", "ui_get_cursor_position",
               "ui_wait_time"} :
      \A Env \in HandlerEnvs :
        /\ UiOutcome(op, Env) = [success |-> FALSE, errorCode |-> "NO_SESSION"]
        /\ UiDriverOp(op, ActiveDriver, bModuleEnabled, Env).calls = <<>>

C18_NoSessionNoOperation == [](C18_AllOps) /\ [][C18_Step]_vars

\* A ui_click was refused for want of a session, after a session had been
\* started and ended.
C18_Witness ==
  /\ ~ActiveDriver
  /\ \E i \in DOMAIN processed :
       /\ UiSubAction(requests[processed[i].req].Payload) = "ui_click"
       /\ processed[i].responses[1].errorCode = "NO_SESSION"

\* C19: platform input is blocked (the module is enabled) exactly when a
\* session is active, so ui_session_status reports inputBlocked equal to
\* sessionActive.
C19_InputBlockedIffSession ==
  /\ bModuleEnabled <=> ActiveDriver
  /\ UiSessionStatus(ActiveDriver, bModuleEnabled).inputBlocked
       <=> UiSessionStatus(ActiveDriver, bModuleEnabled).sessionActive

\* A status query was processed while a session was active.
C19_Witness ==
  /\ ActiveDriver /\ bModuleEnabled
  /\ Len(processed) = 2
  /\ UiSubAction(requests[processed[2].req].Payload) = "ui_session_status"

\* C20: once Deinitialize has completed, no session is active and platform
\* input is not blocked.
C20_NoSessionAfterDeinitialize ==
  (~TickHandle /\ ~ConnectionManager) => (~ActiveDriver /\ ~bModuleEnabled)

-----------------------------------------------------------------------------
\* C21: every action name in a supportedActions list that describe_capabilities
\* sent has a handler in the table InitializeHandlers builds.
C21_SupportedActionsRegistered ==
  \A i \in DOMAIN processed :
    \A n \in DOMAIN processed[i].supportedActions :
      processed[i].supportedActions[n] \in DOMAIN AutomationHandlers

-----------------------------------------------------------------------------
\* The condition C22 puts on a command, on its lower-cased form.
C22_Permitted(Command) ==
  LET Lower == ToLower(Command)
  IN /\ \A w \in {"quit", "exit", "crash", "shutdown", "restart", "reboot",
                  "debug exec"} :
          Lower # w /\ ~StartsWith(Lower, w \o " ")
     /\ \A n \in DOMAIN ForbiddenTokens : ~Contains(Lower, ForbiddenTokens[n])
     /\ \A c \in {"&&", "||", ";", "|", "\n", "\r", Backtick} :
          ~Contains(Lower, c)

\* C22: a console_command request's command reaches GEngine->Exec only if
\* its lower-cased form is no blocked command, does not start with one
\* followed by a space, and contains no forbidden token, chaining operator,
\* semicolon, pipe, line break or backtick; every other command is answered
\* with COMMAND_BLOCKED and is not executed.
C22_BlockedCommandsNotExecuted ==
  \A i \in DOMAIN processed :
    LET in == requests[processed[i].req]
        Command == in.Payload.command
    IN /\ processed[i].executed # <<>> =>
            /\ in.Action = "console_command"
            /\ processed[i].executed = <<Command>>
            /\ C22_Permitted(Command)
       /\ (/\ in.Action = "console_command"
           /\ in.Payload.valid
           /\ Command # NoField
           /\ ~C22_Permitted(Command)) =>
            /\ processed[i].executed = <<>>
            /\ processed[i].responses = <<Response(FALSE, "COMMAND_BLOCKED")>>

\* A command that starts with a blocked command and a space was refused, and
\* one that only starts with the letters of a blocked command was executed.
C22_Witness ==
  /\ \E i \in DOMAIN processed :
       /\ requests[processed[i].req].Payload.command = "EXIT now"
       /\ processed[i].responses = <<Response(FALSE, "COMMAND_BLOCKED")>>
  /\ \E i \in DOMAIN processed : processed[i].executed = <<"quitter">>

-----------------------------------------------------------------------------
\* The actor studies: control_actor requests arriving on one connection while
\* no engine flag is set.

ActorRequest(SubAction, ActorName, ActorNames, SnapshotName, Location) ==
  [Action |-> "control_actor",
   Payload |-> [Payload(TRUE, SubAction, NoField, FALSE)
                  EXCEPT !.actorName = ActorName, !.actorNames = ActorNames,
                         !.snapshotName = SnapshotName,
                         !.location = Location]]

\* The delete study: one name or several, present and absent actors, names
\* that need trimming or differ in case only, no name, no payload.
DeleteInputs ==
  {ActorRequest("delete", NoField, <<"Cube", "Ghost">>, NoField, NoTransform),
   ActorRequest("delete", NoField, <<" Cube ", "cube", "Lamp">>, NoField,
                NoTransform),
   ActorRequest("remove", "Lamp", <<>>, NoField, NoTransform),
   ActorRequest("Delete", "Ghost", <<>>, NoField, NoTransform),
   ActorRequest("delete", "am", <<" ">>, NoField, NoTransform),
   ActorRequest("delete", NoField, <<>>, NoField, NoTransform),
   [Action |-> "control_actor",
    Payload |-> Payload(FALSE, NoField, NoField, FALSE)]}

ArriveDelete(t) == Receive(t, DeleteInputs)

NextDelete == \E t \in DispatchThreads : ArriveDelete(t)

SpecDelete == InitDispatch /\ [][NextDelete]_vars

\* C23: when a control_actor delete request deletes some but not all of its
\* target actors, the response reports that some actors could not be deleted
\* and carries the error code DELETE_PARTIAL.
C23_PartialDeleteReportsDeletePartial ==
  \A i \in DOMAIN processed :
    (processed[i].deleted # <<>> /\ processed[i].missing # <<>>) =>
      /\ processed[i].message = "Some actors could not be deleted"
      /\ \E n \in DOMAIN processed[i].responses :
           processed[i].responses[n].errorCode = "DELETE_PARTIAL"

\* The snapshot study: snapshots of one actor under a name, under the same
\* name in another case and under that name for another actor, a move of the
\* actor, and a restore that names the actor in another case.
SnapshotInputs ==
  {ActorRequest("create_snapshot", "Cube", <<>>, "pose", NoTransform),
   ActorRequest("create_snapshot", "Cube", <<>>, "Pose", NoTransform),
   ActorRequest("create_snapshot", "Lamp", <<>>, "pose", NoTransform),
   ActorRequest("set_transform", "Cube", <<>>, NoField, 1),
   ActorRequest("restore_snapshot", "cube", <<>>, "pose", NoTransform)}

ArriveSnapshot(t) == ReceiveUpTo(t, SnapshotInputs, MaxActorReq)

NextSnapshot == \E t \in DispatchThreads : ArriveSnapshot(t)

SpecSnapshot == InitDispatch /\ [][NextSnapshot]_vars

\* Request i created a snapshot / request j got as far as looking one up.
CreatedSnapshot(i) ==
  /\ processed[i].handlers = <<"HandleControlActorAction",
                               "HandleControlActorCreateSnapshot">>
  /\ processed[i].responses = <<SendStandardSuccessResponse>>

RestoreAsked(j) ==
  /\ processed[j].handlers = <<"HandleControlActorAction",
                               "HandleControlActorRestoreSnapshot">>
  /\ processed[j].actor # NoActor

SameName(a, b) == a = b

\* Every restore that follows a create for the same actor and, by Same, the
\* same name succeeds and sets the actor's transform to the one the latest
\* such create saved.
RestoreSetsLatest(Same(_, _)) ==
  \A j \in DOMAIN processed :
    RestoreAsked(j) =>
      \A i \in 1..(j - 1) :
        ( /\ CreatedSnapshot(i)
          /\ processed[i].actor = processed[j].actor
          /\ Same(processed[i].snapshotName, processed[j].snapshotName)
          /\ \A k \in (i + 1)..(j - 1) :
               ~( /\ CreatedSnapshot(k)
                  /\ processed[k].actor = processed[j].actor
                  /\ Same(processed[k].snapshotName,
                          processed[j].snapshotName) ) )
        => /\ processed[j].responses = <<SendStandardSuccessResponse>>
           /\ processed[j].transform = processed[i].transform
           /\ j = Len(processed) =>
                Actors[processed[j].actor].transform = processed[i].transform

\* C24 as stated: after create_snapshot for an actor and snapshot name, a
\* later restore_snapshot for the same actor and the same name sets the
\* actor's transform to the transform it had at the most recent
\* create_snapshot with exactly that name, whatever transform changes and
\* snapshots under other names came in between.
C24_RestoreSetsLatestOfSameName == RestoreSetsLatest(SameName)

\* C24, with names that differ in case only counted as one name: a
\* restore_snapshot sets the actor's transform to the transform it had at the
\* most recent create_snapshot for the same actor whose name equals the
\* restored name ignoring case.
C24_RestoreSetsLatestIgnoringCase == RestoreSetsLatest(EqualsIgnoreCase)

\* A snapshot was created, the actor was then moved away from the saved
\* transform, and a restore put it back.
C24_Witness ==
  \E i, k, j \in DOMAIN processed :
    /\ i < k /\ k < j
    /\ CreatedSnapshot(i)
    /\ processed[k].handlers = <<"HandleControlActorAction",
                                 "HandleControlActorSetTransform">>
    /\ processed[k].actor = processed[i].actor
    /\ processed[k].transform # processed[i].transform
    /\ RestoreAsked(j)
    /\ processed[j].actor = processed[i].actor
    /\ processed[j].responses = <<SendStandardSuccessResponse>>
    /\ processed[j].transform = processed[i].transform

====
